---- MODULE Spec2Model ----
(***************************************************************************)
(* RenderCV API (src/main.py): the POST / handler generate_resume as a     *)
(* state machine over its stages, and its pure helpers clean_yaml_content, *)
(* inject_theme and format_validation_errors as operators.                 *)
(*                                                                         *)
(* Text is modelled as a sequence of tokens.  A token is a maximal piece   *)
(* of text that the two regular expressions of clean_yaml_content and the  *)
(* line structure of YAML treat as a unit: the fence (three backticks),    *)
(* one whitespace character, a word, a "key: value" entry, a "- item"      *)
(* entry.  The text denoted by a token sequence is the concatenation of    *)
(* its tokens.                                                             *)
(***************************************************************************)
EXTENDS Integers, Sequences, FiniteSets, TLC

(***************************************************************************)
(* Bounds of the model.                                                    *)
(***************************************************************************)
\* longest arbitrary token sequence given to clean_yaml_content
MaxLen == 4
\* longest body placed between a leading and a trailing fence marker line
MaxBody == 3
\* most lines in a document given to inject_theme alone
MaxDocLines == 3
\* number of POST requests the process handles
NumRequests == 2

(***************************************************************************)
(* Tokens.                                                                 *)
(***************************************************************************)
Tok(c, k, v) == [c |-> c, k |-> k, v |-> v]

\* three backticks
FENCE == Tok("fence", "", "")
\* one newline character, one space character
NL == Tok("ws", "\n", "")
SP == Tok("ws", " ", "")
\* a run of letters: a language hint after a fence, or a plain YAML scalar
Word(w) == Tok("word", w, "")
\* "k: v" (v = "" is "k:", an entry with no value on its line)
Key(k, v) == Tok("key", k, v)
\* "- s"
Item(s) == Tok("item", s, "")

IsWs(tok) == tok.c = "ws"

\* str.lower() on the words of the model
Lower(w) ==
    CASE w = "YML" -> "yml"
      [] w = "Yaml" -> "yaml"
      [] OTHER -> w

\* len() of the text of one string of the model
StrLen(s) ==
    CASE s = "" -> 0
      [] s \in {"J", "x"} -> 1
      [] s \in {"cv", "{}"} -> 2
      [] s \in {"yml", "YML"} -> 3
      [] s \in {"yaml", "Yaml", "json", "font", "item", "null"} -> 4
      [] s \in {"theme", "hello"} -> 5
      [] s = "design" -> 6
      [] s \in {"classic", "mytheme"} -> 7
      [] s = "engineeringresumes" -> 18
      [] OTHER -> 1

\* len() of the text of one token
TokLen(tok) ==
    CASE tok.c = "fence" -> 3
      [] tok.c = "ws" -> 1
      [] tok.c = "word" -> StrLen(tok.k)
      [] tok.c = "item" -> 2 + StrLen(tok.k)
      [] tok.c = "key" ->
            StrLen(tok.k) + 1 + (IF tok.v = "" THEN 0 ELSE 1 + StrLen(tok.v))

RECURSIVE TextLen(_)
\* len(text) in characters
TextLen(t) == IF t = <<>> THEN 0 ELSE TokLen(Head(t)) + TextLen(Tail(t))

RECURSIVE SeqsUpTo(_, _)
\* every sequence over S of length at most n
SeqsUpTo(S, n) ==
    IF n = 0 THEN {<<>>}
    ELSE LET shorter == SeqsUpTo(S, n - 1)
         IN  shorter \cup {Append(t, x) : t \in shorter, x \in S}

(***************************************************************************)
(* clean_yaml_content (src/main.py 169-175).                               *)
(***************************************************************************)
RECURSIVE LStrip(_)
\* leading whitespace removed
LStrip(t) ==
    IF t = <<>> THEN <<>>
    ELSE IF IsWs(Head(t)) THEN LStrip(Tail(t)) ELSE t

RECURSIVE RStrip(_)
\* trailing whitespace removed
RStrip(t) ==
    IF t = <<>> THEN <<>>
    ELSE IF IsWs(t[Len(t)]) THEN RStrip(SubSeq(t, 1, Len(t) - 1)) ELSE t

\* str.strip()
Strip(t) == RStrip(LStrip(t))

\* the alternation matched without the IGNORECASE flag
HintMatches_CaseSensitive(tok) == tok.c = "word" /\ tok.k \in {"yaml", "yml"}

\* the alternation (?:yaml|yml) under re.IGNORECASE
HintMatches(tok) == tok.c = "word" /\ Lower(tok.k) \in {"yaml", "yml"}

\* the first re.sub (line 173), fence then optional hint then whitespace:
\* anchored at the start of the text, so at most one match; \s* is greedy
\* and takes every whitespace character that follows, newlines included.
SubLeadingFence(t) ==
    IF t # <<>> /\ Head(t) = FENCE
    THEN LET r1 == Tail(t)
             r2 == IF r1 # <<>> /\ HintMatches(Head(r1)) THEN Tail(r1) ELSE r1
         IN  LStrip(r2)
    ELSE t

\* the second re.sub (line 174): the only fence that only whitespace
\* separates from the end of the text is the last one; at most one newline
\* before it is taken with it.
SubTrailingFence(t) ==
    LET r == RStrip(t)
    IN  IF r # <<>> /\ r[Len(r)] = FENCE
        THEN LET f == Len(r)
                 cut == IF f >= 2 /\ r[f - 1] = NL THEN f - 2 ELSE f - 1
             IN  SubSeq(t, 1, cut)
        ELSE t

clean_yaml_content(t) == Strip(SubTrailingFence(SubLeadingFence(Strip(t))))

(***************************************************************************)
(* Python values: None, str, list, dict.  A str is kept as the sequence of *)
(* its pieces (a plain scalar folded over several lines has several).      *)
(***************************************************************************)
PyNone == [py |-> "none", l |-> <<>>, d |-> <<>>]
PyStr(pieces) == [py |-> "str", l |-> pieces, d |-> <<>>]
PyList(items) == [py |-> "list", l |-> items, d |-> <<>>]
PyDict(d) == [py |-> "dict", l |-> <<>>, d |-> d]

\* d[k] = val on a dict
Put(d, k, val) == [x \in (DOMAIN d) \cup {k} |-> IF x = k THEN val ELSE d[x]]

\* "sub in s" on two strings of the model
HasSub(s, sub) == s = sub \/ <<s, sub>> \in {<<"mytheme", "theme">>}

\* Python's "key in v" for the values on which it is defined
PyContains(v, key) ==
    CASE v.py = "dict" -> key \in DOMAIN v.d
      [] v.py = "str" -> \E i \in 1..Len(v.l) : HasSub(v.l[i], key)
      [] v.py = "list" -> \E i \in 1..Len(v.l) : v.l[i] = key

(***************************************************************************)
(* yaml.safe_load (src/main.py 182) on the texts of the model: block       *)
(* mappings of two levels, block sequences, plain scalars.                 *)
(***************************************************************************)
RECURSIVE SplitLines(_)
\* str.splitlines on the newline tokens
SplitLines(t) ==
    IF t = <<>> THEN << <<>> >>
    ELSE IF Head(t) = NL THEN << <<>> >> \o SplitLines(Tail(t))
    ELSE LET rest == SplitLines(Tail(t))
         IN  << <<Head(t)>> \o Head(rest) >> \o Tail(rest)

IsBlank(line) == Strip(line) = <<>>

\* the lines that hold something
YamlLines(t) == SelectSeq(SplitLines(t), LAMBDA line : ~IsBlank(line))

\* the column at which a line's content starts
Indent(line) == Len(line) - Len(LStrip(line))

LineKind(line) ==
    LET c == Strip(line)
    IN  CASE Head(c) = FENCE -> "fence"
          [] Head(c) # FENCE /\ Len(c) = 1 /\ c[1].c = "key" ->
                IF c[1].v = "[" THEN "bad" ELSE "key"
          [] Head(c) # FENCE /\ Len(c) = 1 /\ c[1].c = "item" -> "item"
          [] Head(c) # FENCE /\ \A i \in 1..Len(c) : c[i].c \in {"word", "ws"} ->
                "scalar"
          [] OTHER -> "other"

\* the value a plain scalar resolves to
ValueOf(v) ==
    CASE v \in {"", "null"} -> PyNone
      [] v = "{}" -> PyDict(<<>>)
      [] OTHER -> PyStr(<<v>>)

YamlError == [ok |-> FALSE, val |-> PyNone]
YamlOk(val) == [ok |-> TRUE, val |-> val]

\* the pieces of a plain scalar that spans the given lines
RECURSIVE ScalarPieces(_)
ScalarPieces(ls) ==
    IF ls = <<>> THEN <<>>
    ELSE LET c == SelectSeq(Strip(Head(ls)), LAMBDA tok : ~IsWs(tok))
         IN  [i \in 1..Len(c) |-> IF c[i].c = "fence" THEN "fence" ELSE c[i].k]
             \o ScalarPieces(Tail(ls))

\* A block mapping at column 0, read entry by entry.  acc.open is the key of
\* the entry being read and acc.mode what its value is so far: "closed" (a
\* value on the key's line), "empty" (none yet), "map" (nested entries at
\* column acc.ind) or "list" (items at column 0).
RECURSIVE ParseMapping(_, _)
ParseMapping(ls, acc) ==
    IF ls = <<>> THEN YamlOk(PyDict(acc.d))
    ELSE
      LET line == Head(ls)
          kind == LineKind(line)
          tok == Strip(line)[1]
          n == Indent(line)
      IN  CASE kind \in {"fence", "bad", "scalar", "other"} -> YamlError
            [] kind = "key" /\ n = 0 ->
                  ParseMapping(Tail(ls),
                      [d |-> Put(acc.d, tok.k, ValueOf(tok.v)),
                       open |-> tok.k,
                       mode |-> IF tok.v = "" THEN "empty" ELSE "closed",
                       ind |-> 0])
            [] kind = "key" /\ n > 0 ->
                  IF acc.mode = "empty"
                  THEN ParseMapping(Tail(ls),
                           [acc EXCEPT !.d = Put(acc.d, acc.open,
                                    PyDict(Put(<<>>, tok.k, ValueOf(tok.v)))),
                                  !.mode = "map", !.ind = n])
                  ELSE IF acc.mode = "map" /\ n = acc.ind
                  THEN ParseMapping(Tail(ls),
                           [acc EXCEPT !.d = Put(acc.d, acc.open,
                                    PyDict(Put(acc.d[acc.open].d, tok.k,
                                               ValueOf(tok.v))))])
                  ELSE YamlError
            [] kind = "item" /\ n = 0 ->
                  IF acc.mode = "empty"
                  THEN ParseMapping(Tail(ls),
                           [acc EXCEPT !.d = Put(acc.d, acc.open, PyList(<<tok.k>>)),
                                  !.mode = "list"])
                  ELSE IF acc.mode = "list"
                  THEN ParseMapping(Tail(ls),
                           [acc EXCEPT !.d = Put(acc.d, acc.open,
                                    PyList(Append(acc.d[acc.open].l, tok.k)))])
                  ELSE YamlError
            [] kind = "item" /\ n > 0 -> YamlError

\* yaml.safe_load: the parsed value, or YamlError for yaml.YAMLError
ParseYaml(t) ==
    LET ls == YamlLines(t)
        kinds == [i \in 1..Len(ls) |-> LineKind(ls[i])]
    IN  IF ls = <<>> THEN YamlOk(PyNone)
        ELSE CASE kinds[1] \in {"fence", "bad", "other"} -> YamlError
               [] kinds[1] = "scalar" ->
                     IF \E i \in 2..Len(ls) : kinds[i] \in {"key", "bad"}
                     THEN YamlError
                     ELSE YamlOk(PyStr(ScalarPieces(ls)))
               [] kinds[1] = "item" ->
                     IF \A i \in 1..Len(ls) : kinds[i] = "item" /\ Indent(ls[i]) = 0
                     THEN YamlOk(PyList([i \in 1..Len(ls) |-> Strip(ls[i])[1].k]))
                     ELSE YamlError
               [] kinds[1] = "key" ->
                     ParseMapping(ls, [d |-> <<>>, open |-> "", mode |-> "closed",
                                       ind |-> 0])

\* The texts on which ParseYaml is the parser's answer: the first line starts
\* at column 0; below a mapping or a sequence, indented lines are entries of
\* one nested mapping (equal columns) and every line is one token or a fence
\* line.
YamlModelled(t) ==
    LET ls == YamlLines(t)
        kinds == [i \in 1..Len(ls) |-> LineKind(ls[i])]
    IN  ls # <<>> =>
          /\ Indent(ls[1]) = 0
          /\ kinds[1] # "fence" => \A i \in 1..Len(ls) : kinds[i] # "other"
          /\ kinds[1] \in {"item", "key", "bad"} =>
                /\ \A i \in 1..Len(ls) :
                      Indent(ls[i]) > 0 => kinds[i] \in {"key", "bad"}
                /\ \A i \in 1..(Len(ls) - 1) :
                      (Indent(ls[i]) > 0 /\ Indent(ls[i + 1]) > 0)
                          => Indent(ls[i]) = Indent(ls[i + 1])

(***************************************************************************)
(* yaml.dump(data, allow_unicode=True, default_flow_style=False)           *)
(* (src/main.py 189): block style, keys sorted, one entry per line.        *)
(***************************************************************************)
\* the keys of the model in sorted order
KeyOrder == <<"cv", "design", "font", "theme">>

SortedKeys(d) == SelectSeq(KeyOrder, LAMBDA k : k \in DOMAIN d)

\* how a scalar or an empty collection is written on its key's line
ScalarText(val) ==
    CASE val.py = "none" -> "null"
      [] val.py = "str" -> val.l[1]
      [] val.py = "dict" -> "{}"

RECURSIVE DumpItems(_)
DumpItems(items) ==
    IF items = <<>> THEN <<>>
    ELSE <<Item(Head(items)), NL>> \o DumpItems(Tail(items))

RECURSIVE DumpEntries(_, _, _)
\* the entries of dict d for the keys ks, each line after the indentation ind
DumpEntries(d, ks, ind) ==
    IF ks = <<>> THEN <<>>
    ELSE LET k == Head(ks)
             val == d[k]
             this ==
               CASE val.py = "dict" /\ DOMAIN val.d # {} ->
                      ind \o <<Key(k, ""), NL>>
                          \o DumpEntries(val.d, SortedKeys(val.d), ind \o <<SP, SP>>)
                 [] val.py = "list" ->
                      ind \o <<Key(k, ""), NL>> \o DumpItems(val.l)
                 [] OTHER -> ind \o <<Key(k, ScalarText(val)), NL>>
         IN  this \o DumpEntries(d, Tail(ks), ind)

DumpYaml(data) == DumpEntries(data.d, SortedKeys(data.d), <<>>)

(***************************************************************************)
(* inject_theme (src/main.py 178-191).  Returns the text, or raises: a     *)
(* TypeError is no yaml.YAMLError and leaves the function.                 *)
(***************************************************************************)
Returned(t) == [raised |-> FALSE, text |-> t]
Raised == [raised |-> TRUE, text |-> <<>>]

\* the theme entry assigned without the membership test of line 187
InjectIntoDesign_Overwrite(data, default_theme) ==
    LET design == data.d["design"]
    IN  CASE design.py = "none" -> Raised
          [] design.py = "dict" ->
                Returned(DumpYaml(PyDict(Put(data.d, "design",
                                 PyDict(Put(design.d, "theme", default_theme))))))
          [] design.py \in {"str", "list"} ->
                IF ~PyContains(design, "theme") THEN Raised
                ELSE Returned(DumpYaml(data))

\* lines 187-189 on a dict that has a "design" entry
InjectIntoDesign(data, default_theme) ==
    LET design == data.d["design"]
    IN  CASE design.py = "none" -> Raised
          [] design.py = "dict" ->
                IF "theme" \notin DOMAIN design.d
                THEN Returned(DumpYaml(PyDict(Put(data.d, "design",
                                 PyDict(Put(design.d, "theme", default_theme))))))
                ELSE Returned(DumpYaml(data))
          [] design.py \in {"str", "list"} ->
                IF ~PyContains(design, "theme") THEN Raised
                ELSE Returned(DumpYaml(data))

\* the except clause of line 190 left out: the parse error leaves the function
inject_theme_FailClosed(yaml_text, default_theme) ==
    LET p == ParseYaml(yaml_text)
        data == IF p.val.py = "none" THEN PyDict(<<>>) ELSE p.val
    IN  IF ~p.ok THEN Raised
        ELSE IF data.py # "dict" THEN Raised
        ELSE IF "design" \notin DOMAIN data.d
        THEN InjectIntoDesign(PyDict(Put(data.d, "design", PyDict(<<>>))), default_theme)
        ELSE InjectIntoDesign(data, default_theme)

\* lines 178-191
inject_theme(yaml_text, default_theme) ==
    LET p == ParseYaml(yaml_text)
        data == IF p.val.py = "none" THEN PyDict(<<>>) ELSE p.val
    IN  IF ~p.ok THEN Returned(yaml_text)
        \* a str or a list: line 186 or line 187 raises TypeError (no item
        \* assignment by key, no index by key)
        ELSE IF data.py # "dict" THEN Raised
        ELSE IF "design" \notin DOMAIN data.d
        THEN InjectIntoDesign(PyDict(Put(data.d, "design", PyDict(<<>>))), default_theme)
        ELSE InjectIntoDesign(data, default_theme)

(***************************************************************************)
(* format_validation_errors (src/main.py 194-204).  An error is a dict     *)
(* (with or without "loc" and "msg") or any other object.                  *)
(***************************************************************************)
\* str(i) for the positions of the model
NumStr(i) == CASE i = 1 -> "1" [] i = 2 -> "2" [] OTHER -> "n"

RECURSIVE JoinWith(_, _)
\* sep.join(parts), each part a sequence of pieces
JoinWith(parts, sep) ==
    IF parts = <<>> THEN <<>>
    ELSE IF Len(parts) = 1 THEN parts[1]
    ELSE parts[1] \o <<sep>> \o JoinWith(Tail(parts), sep)

FormatOne(i, error) ==
    IF error.isdict
    THEN <<NumStr(i), ". ">>
             \o JoinWith([j \in 1..Len(error.loc) |-> <<error.loc[j]>>], ".")
             \o <<": ", IF error.hasmsg THEN error.msg ELSE "Unknown error">>
    ELSE <<NumStr(i), ". ", error.msg>>

format_validation_errors(errors) ==
    JoinWith([i \in 1..Len(errors) |-> FormatOne(i, errors[i])], "; ")

\* whether a string, given by its pieces, is non-empty
NonEmpty(pieces) == \E i \in 1..Len(pieces) : pieces[i] # ""

(***************************************************************************)
(* The inputs of a request and the answers of the collaborators.           *)
(***************************************************************************)
Requests == 1..NumRequests
\* the requests the sequential specification follows
Serving == {1}

\* the value of the local yaml_content: a str (its text t), or what a JSON
\* body can hold instead: null, a number n, a list of n elements
YStr(t) == [py |-> "str", t |-> t, n |-> 0]
YNone == [py |-> "none", t |-> <<>>, n |-> 0]
YInt(n) == [py |-> "int", t |-> <<>>, n |-> n]
YList(n) == [py |-> "list", t |-> <<>>, n |-> n]

Falsy_NoneOnly(y) == y.py = "none"

\* Python truth of "not yaml_content"
Falsy(y) ==
    \/ y.py = "none"
    \/ y.py = "str" /\ y.t = <<>>
    \/ y.py \in {"int", "list"} /\ y.n = 0

\* configuration documents
DocNoDesign == <<Key("cv", "J")>>
DocWithTheme ==
    <<Key("cv", "J"), NL, Key("design", ""), NL,
      SP, SP, Key("theme", "engineeringresumes")>>
DocScalar == <<Word("hello")>>
DocMalformed == <<Key("cv", "[")>>
DocDesignNull == <<Key("design", "")>>

\* a body between a leading fence line (with a hint word, or none) and a
\* trailing fence line
Fenced(hint, body) ==
    <<FENCE>> \o (IF hint = "" THEN <<>> ELSE <<Word(hint)>>) \o <<NL>>
        \o body \o <<NL, FENCE>>

\* the non-empty document bodies of the requests
Bodies ==
    { <<SP, NL>>, DocNoDesign, DocWithTheme, DocScalar, DocMalformed,
      DocDesignNull, Fenced("yaml", DocNoDesign), Fenced("YML", DocWithTheme),
      Fenced("json", DocNoDesign), Fenced("", Fenced("", DocNoDesign)) }

DefaultTheme == PyStr(<<"classic">>)
GivenTheme == PyStr(<<"engineeringresumes">>)

\* what request.get_json() has to parse
JsonBody(kind, has_yaml, yaml, has_theme, theme_value) ==
    [kind |-> kind, has_yaml |-> has_yaml, yaml |-> yaml,
     has_theme |-> has_theme, theme |-> theme_value]
NoJson == JsonBody("none", FALSE, YNone, FALSE, PyNone)

\* the values the yaml_content field of a JSON object can hold
YamlFields ==
    {YStr(<<>>), YNone, YInt(0), YInt(5), YList(1)} \cup {YStr(b) : b \in Bodies}

JsonObjects ==
    { JsonBody("object", TRUE, y, TRUE, th) :
        y \in YamlFields, th \in {GivenTheme, PyNone} }
    \cup { JsonBody("object", TRUE, YStr(b), FALSE, PyNone) : b \in Bodies \cup {<<>>} }
    \cup { JsonBody("object", FALSE, YNone, ht, GivenTheme) : ht \in BOOLEAN }

JsonBodies ==
    JsonObjects \cup { JsonBody(k, FALSE, YNone, FALSE, PyNone) :
                          k \in {"unparsable", "null", "list"} }

Request(content_type, json, data, has_arg, arg) ==
    [content_type |-> content_type, json |-> json, data |-> data,
     has_arg_theme |-> has_arg, arg_theme |-> arg]

RequestInputs ==
    { Request(ct, NoJson, b, ha, GivenTheme) :
        ct \in {PyNone, PyStr(<<"text/plain">>)},
        b \in Bodies \cup {<<>>}, ha \in BOOLEAN }
    \cup { Request(ct, j, <<>>, FALSE, GivenTheme) :
        ct \in {PyStr(<<"application/json">>),
                PyStr(<<"application/json", "; charset=utf-8">>)},
        j \in JsonBodies }

NoRequest == Request(PyNone, NoJson, <<>>, FALSE, GivenTheme)

\* str(e) of an exception a collaborator raises: empty, or not
ExcMessages == {<<>>, <<"fault">>}

\* e.validation_errors of a RenderCVUserValidationError
ValidationErrorLists ==
    { <<>>,
      <<[isdict |-> TRUE, loc |-> <<"cv", "name">>, hasmsg |-> TRUE,
         msg |-> "Field required"]>>,
      <<[isdict |-> TRUE, loc |-> <<>>, hasmsg |-> FALSE, msg |-> ""],
        [isdict |-> FALSE, loc |-> <<>>, hasmsg |-> FALSE, msg |-> "oops"]>> }

\* os.environ.get of a variable: unset, set to the empty string, set
EnvValues(v) == {PyNone, PyStr(<<>>), PyStr(<<v>>)}

\* os.environ.get("SUPABASE_BUCKET", "resumes") (line 21) with the variable unset
SUPABASE_BUCKET == "resumes"

\* uuid.uuid4() values
Uuids == {"uuid-a", "uuid-b", "uuid-c"}

\* len() of the bytes typst.compile returns
PdfSizes == {1200}

\* rendercv_model.cv.name
CvNames == {"J"}

(***************************************************************************)
(* State.                                                                  *)
(***************************************************************************)
VARIABLES
    SUPABASE_URL, SUPABASE_KEY, \* module globals (lines 19-20)
    storage,        \* the object paths uploaded to the bucket
    pc,             \* per request: the handler's position
    request,        \* per request: the HTTP request
    yaml_content,   \* per request: local yaml_content
    theme,          \* per request: local theme
    logs,           \* per request: local logs
    temp_dir,       \* per request: the TemporaryDirectory: "none", "exists", "deleted"
    rendercv_model, \* per request: local rendercv_model ("" before it is built)
    typst_path,     \* per request: local typst_path ("" before it is generated)
    pdf_bytes,      \* per request: len(pdf_bytes) (-1 before compilation)
    response,       \* per request: the (body, status) returned
    ran,            \* per request: history, the stages started, in order
    completed,      \* per request: history, the stages that ended without a fault
    fin, fout, fpc  \* argument, results and position of a helper called alone

vars ==
    <<SUPABASE_URL, SUPABASE_KEY, storage, pc, request, yaml_content, theme,
      logs, temp_dir, rendercv_model, typst_path, pdf_bytes, response, ran,
      completed, fin, fout, fpc>>

config == <<SUPABASE_URL, SUPABASE_KEY>>
artifacts == <<rendercv_model, typst_path, pdf_bytes>>
helper == <<fin, fout, fpc>>

(***************************************************************************)
(* Log lines and responses.                                                *)
(***************************************************************************)
LogEntry(tag, n, msg) == [tag |-> tag, n |-> n, msg |-> msg]
\* f"Received YAML ({n} chars)"
Received(n) == LogEntry("Received", n, <<>>)
\* f"Theme: {theme}"
ThemeLine(s) == LogEntry("Theme", 0, <<s>>)
\* f"Built RenderCV model: {name}"
Built(name) == LogEntry("Built", 0, <<name>>)
\* "Generated Typst file"
Generated == LogEntry("Generated", 0, <<>>)
\* f"Compiled PDF ({n} bytes)"
Compiled(n) == LogEntry("Compiled", n, <<>>)
\* f"Uploaded to Supabase: {file_path}"
Uploaded(file_path) == LogEntry("Uploaded", 0, file_path)
\* "ERROR: " followed by msg
ErrorLine(msg) == LogEntry("ERROR", 0, msg)

\* str(theme)
PyStrOf(v) == IF v.py = "none" THEN "None" ELSE v.l[1]

NoBody == [keys |-> {}, success |-> FALSE, error |-> <<>>, url |-> <<>>, logs |-> <<>>]
NoResponse == [status |-> 0, body |-> NoBody]
\* jsonify({"success": False, "error": err, "logs": lg}), status
Failure(status, err, lg) ==
    [status |-> status,
     body |-> [keys |-> {"success", "error", "logs"}, success |-> FALSE,
               error |-> err, url |-> <<>>, logs |-> lg]]
\* jsonify({"success": True, "url": url, "logs": lg}), status 200 by default
Success(url, lg) ==
    [status |-> 200,
     body |-> [keys |-> {"success", "url", "logs"}, success |-> TRUE,
               error |-> <<>>, url |-> url, logs |-> lg]]

(***************************************************************************)
(* generate_resume (src/main.py 40-166), one action per stage.             *)
(***************************************************************************)
Truthy(env) == env.py = "str" /\ NonEmpty(env.l)

get_supabase_client_UrlOnly == IF Truthy(SUPABASE_URL) THEN "client" ELSE "None"

\* get_supabase_client (lines 24-28), before create_client is called
get_supabase_client ==
    IF Truthy(SUPABASE_URL) /\ Truthy(SUPABASE_KEY) THEN "client" ELSE "None"

\* a return that leaves the directory in place, as mkdtemp without the
\* with statement would
ReturnWith_KeepsDir(r, lg, resp) ==
    /\ logs' = [logs EXCEPT ![r] = lg]
    /\ response' = [response EXCEPT ![r] = resp]
    /\ pc' = [pc EXCEPT ![r] = "done"]
    /\ temp_dir' = temp_dir

\* a return statement: the response is fixed, and leaving the with block
\* (line 83) deletes the temporary directory if it was created
ReturnWith(r, lg, resp) ==
    /\ logs' = [logs EXCEPT ![r] = lg]
    /\ response' = [response EXCEPT ![r] = resp]
    /\ pc' = [pc EXCEPT ![r] = "done"]
    /\ temp_dir' = [temp_dir EXCEPT ![r] = IF @ = "exists" THEN "deleted" ELSE @]

\* the exception left to propagate out of the handler: no response
OuterHandler_Propagates(r, msg) ==
    /\ logs' = [logs EXCEPT ![r] = Append(@, ErrorLine(<<"Unexpected error: ">> \o msg))]
    /\ response' = response
    /\ pc' = [pc EXCEPT ![r] = "raised"]
    /\ temp_dir' = [temp_dir EXCEPT ![r] = IF @ = "exists" THEN "deleted" ELSE @]

OuterHandler_DropsLog(r, msg) ==
    LET lg == <<ErrorLine(<<"Unexpected error: ">> \o msg)>>
    IN  ReturnWith(r, lg, Failure(500, msg, lg))

OuterHandler_Status200(r, msg) ==
    LET lg == Append(logs[r], ErrorLine(<<"Unexpected error: ">> \o msg))
    IN  ReturnWith(r, lg, Failure(200, msg, lg))

\* the outer except (lines 164-166), e being an exception with str(e) = msg
OuterHandler(r, msg) ==
    LET lg == Append(logs[r], ErrorLine(<<"Unexpected error: ">> \o msg))
    IN  ReturnWith(r, lg, Failure(500, msg, lg))

\* the except of a stage: logs.append(f"ERROR: {label}{msg}") and
\* return jsonify({... "error": f"{label}{msg}" ...}), status
StageFailure(r, label, msg, status) ==
    LET lg == Append(logs[r], ErrorLine(<<label>> \o msg))
    IN  ReturnWith(r, lg, Failure(status, <<label>> \o msg, lg))

Started(r, stage) == ran' = [ran EXCEPT ![r] = Append(@, stage)]
Completed(r, stage) == completed' = [completed EXCEPT ![r] = Append(@, stage)]

\* the theme read from the query string in both payload shapes
ReceiveInput_ThemeFromArgs(r) ==
    /\ pc[r] = "receive"
    /\ \E req \in RequestInputs :
         LET content_type ==
               IF req.content_type.py = "none" THEN PyStr(<<>>) ELSE req.content_type
         IN
         /\ request' = [request EXCEPT ![r] = req]
         /\ Started(r, "ReceiveInput")
         /\ IF PyContains(content_type, "application/json")
            THEN CASE req.json.kind = "unparsable" ->
                        \* get_json raises BadRequest
                        /\ OuterHandler(r, <<"400 Bad Request">>)
                        /\ UNCHANGED <<yaml_content, theme, completed>>
                   [] req.json.kind \in {"null", "list"} ->
                        \* data.get: AttributeError
                        /\ OuterHandler(r, <<"AttributeError">>)
                        /\ UNCHANGED <<yaml_content, theme, completed>>
                   [] req.json.kind = "object" ->
                        /\ yaml_content' = [yaml_content EXCEPT ![r] =
                              IF req.json.has_yaml THEN req.json.yaml ELSE YStr(<<>>)]
                        /\ theme' = [theme EXCEPT ![r] =
                              IF req.has_arg_theme THEN req.arg_theme
                              ELSE DefaultTheme]
                        /\ pc' = [pc EXCEPT ![r] = "validate"]
                        /\ Completed(r, "ReceiveInput")
                        /\ UNCHANGED <<logs, response, temp_dir>>
            ELSE /\ yaml_content' = [yaml_content EXCEPT ![r] = YStr(req.data)]
                 /\ theme' = [theme EXCEPT ![r] =
                       IF req.has_arg_theme THEN req.arg_theme ELSE DefaultTheme]
                 /\ pc' = [pc EXCEPT ![r] = "validate"]
                 /\ Completed(r, "ReceiveInput")
                 /\ UNCHANGED <<logs, response, temp_dir>>
    /\ UNCHANGED <<config, storage, artifacts, helper>>

\* lines 48-60
ReceiveInput(r) ==
    /\ pc[r] = "receive"
    /\ \E req \in RequestInputs :
         LET content_type ==
               IF req.content_type.py = "none" THEN PyStr(<<>>) ELSE req.content_type
         IN
         /\ request' = [request EXCEPT ![r] = req]
         /\ Started(r, "ReceiveInput")
         /\ IF PyContains(content_type, "application/json")
            THEN CASE req.json.kind = "unparsable" ->
                        \* get_json raises BadRequest
                        /\ OuterHandler(r, <<"400 Bad Request">>)
                        /\ UNCHANGED <<yaml_content, theme, completed>>
                   [] req.json.kind \in {"null", "list"} ->
                        \* data.get: AttributeError
                        /\ OuterHandler(r, <<"AttributeError">>)
                        /\ UNCHANGED <<yaml_content, theme, completed>>
                   [] req.json.kind = "object" ->
                        /\ yaml_content' = [yaml_content EXCEPT ![r] =
                              IF req.json.has_yaml THEN req.json.yaml ELSE YStr(<<>>)]
                        /\ theme' = [theme EXCEPT ![r] =
                              IF req.json.has_theme THEN req.json.theme
                              ELSE DefaultTheme]
                        /\ pc' = [pc EXCEPT ![r] = "validate"]
                        /\ Completed(r, "ReceiveInput")
                        /\ UNCHANGED <<logs, response, temp_dir>>
            ELSE /\ yaml_content' = [yaml_content EXCEPT ![r] = YStr(req.data)]
                 /\ theme' = [theme EXCEPT ![r] =
                       IF req.has_arg_theme THEN req.arg_theme ELSE DefaultTheme]
                 /\ pc' = [pc EXCEPT ![r] = "validate"]
                 /\ Completed(r, "ReceiveInput")
                 /\ UNCHANGED <<logs, response, temp_dir>>
    /\ UNCHANGED <<config, storage, artifacts, helper>>

\* logs as one list of the module instead of the local of line 48
ValidateNonEmpty_SharedLog(r) ==
    /\ pc[r] = "validate"
    /\ Started(r, "ValidateNonEmpty")
    /\ IF Falsy(yaml_content[r])
       THEN /\ ReturnWith(r, logs[r],
                  Failure(400, <<"No YAML content provided">>, logs[r]))
            /\ UNCHANGED completed
       ELSE IF yaml_content[r].py = "int"
       THEN /\ OuterHandler(r, <<"TypeError">>)
            /\ UNCHANGED completed
       ELSE /\ logs' = [q \in Requests |-> logs[q] \o
                  <<Received(IF yaml_content[r].py = "str"
                             THEN TextLen(yaml_content[r].t)
                             ELSE yaml_content[r].n),
                    ThemeLine(PyStrOf(theme[r]))>>]
            /\ pc' = [pc EXCEPT ![r] = "normalize"]
            /\ Completed(r, "ValidateNonEmpty")
            /\ UNCHANGED <<response, temp_dir>>
    /\ UNCHANGED <<config, storage, request, yaml_content, theme, artifacts, helper>>

\* lines 62-66
ValidateNonEmpty(r) ==
    /\ pc[r] = "validate"
    /\ Started(r, "ValidateNonEmpty")
    /\ IF Falsy(yaml_content[r])
       THEN /\ ReturnWith(r, logs[r],
                  Failure(400, <<"No YAML content provided">>, logs[r]))
            /\ UNCHANGED completed
       ELSE IF yaml_content[r].py = "int"
       THEN \* len(yaml_content): TypeError
            /\ OuterHandler(r, <<"TypeError">>)
            /\ UNCHANGED completed
       ELSE /\ logs' = [logs EXCEPT ![r] =
                  @ \o <<Received(IF yaml_content[r].py = "str"
                                  THEN TextLen(yaml_content[r].t)
                                  ELSE yaml_content[r].n),
                         ThemeLine(PyStrOf(theme[r]))>>]
            /\ pc' = [pc EXCEPT ![r] = "normalize"]
            /\ Completed(r, "ValidateNonEmpty")
            /\ UNCHANGED <<response, temp_dir>>
    /\ UNCHANGED <<config, storage, request, yaml_content, theme, artifacts, helper>>

\* line 69
Normalize(r) ==
    /\ pc[r] = "normalize"
    /\ Started(r, "Normalize")
    /\ IF yaml_content[r].py # "str"
       THEN \* yaml_content.strip(): AttributeError
            /\ OuterHandler(r, <<"AttributeError">>)
            /\ UNCHANGED <<yaml_content, completed>>
       ELSE /\ yaml_content' = [yaml_content EXCEPT ![r] =
                  YStr(clean_yaml_content(@.t))]
            /\ pc' = [pc EXCEPT ![r] = "import"]
            /\ Completed(r, "Normalize")
            /\ UNCHANGED <<logs, response, temp_dir>>
    /\ UNCHANGED <<config, storage, request, theme, artifacts, helper>>

\* lines 72-80
ImportComponents(r) ==
    /\ pc[r] = "import"
    /\ Started(r, "ImportComponents")
    /\ \/ /\ pc' = [pc EXCEPT ![r] = "tempdir"]
          /\ Completed(r, "ImportComponents")
          /\ UNCHANGED <<logs, response, temp_dir>>
       \/ /\ \E msg \in ExcMessages :
               StageFailure(r, "RenderCV import failed: ", msg, 500)
          /\ UNCHANGED completed
    /\ UNCHANGED <<config, storage, request, yaml_content, theme, artifacts, helper>>

\* lines 83-86
CreateWorkDir(r) ==
    /\ pc[r] = "tempdir"
    /\ Started(r, "CreateWorkDir")
    /\ \/ /\ temp_dir' = [temp_dir EXCEPT ![r] = "exists"]
          /\ pc' = [pc EXCEPT ![r] = "inject"]
          /\ Completed(r, "CreateWorkDir")
          /\ UNCHANGED <<logs, response>>
       \/ \* tempfile.TemporaryDirectory() raises OSError
          /\ \E msg \in ExcMessages : OuterHandler(r, msg)
          /\ UNCHANGED completed
    /\ UNCHANGED <<config, storage, request, yaml_content, theme, artifacts, helper>>

\* the arguments of the call at line 89: a normalized body and a theme
InjectArgs ==
    { <<clean_yaml_content(b), th>> :
        b \in Bodies, th \in {DefaultTheme, GivenTheme, PyNone} }

\* inject_theme, tabulated over the arguments the handler calls it with
InjectTable ==
    { [args |-> a, result |-> inject_theme(a[1], a[2])] : a \in InjectArgs }

InjectResult(yaml_text, theme_arg) ==
    (CHOOSE e \in InjectTable : e.args = <<yaml_text, theme_arg>>).result

\* line 89
InjectDefaults(r) ==
    /\ pc[r] = "inject"
    /\ Started(r, "InjectDefaults")
    /\ LET res == InjectResult(yaml_content[r].t, theme[r])
       IN  IF res.raised
           THEN /\ OuterHandler(r, <<"TypeError">>)
                /\ UNCHANGED <<yaml_content, completed>>
           ELSE /\ yaml_content' = [yaml_content EXCEPT ![r] = YStr(res.text)]
                /\ pc' = [pc EXCEPT ![r] = "build"]
                /\ Completed(r, "InjectDefaults")
                /\ UNCHANGED <<logs, response, temp_dir>>
    /\ UNCHANGED <<config, storage, request, theme, artifacts, helper>>

BuildModel_FallsThrough(r) ==
    /\ pc[r] = "build"
    /\ Started(r, "BuildModel")
    /\ \E msg \in ExcMessages :
          logs' = [logs EXCEPT ![r] =
                      Append(@, ErrorLine(<<"Model build failed: ">> \o msg))]
    /\ pc' = [pc EXCEPT ![r] = "generate"]
    /\ UNCHANGED <<config, storage, request, yaml_content, theme, artifacts,
                   helper, response, temp_dir, completed>>

\* lines 92-107
BuildModel(r) ==
    /\ pc[r] = "build"
    /\ Started(r, "BuildModel")
    /\ \/ /\ \E name \in CvNames :
               /\ rendercv_model' = [rendercv_model EXCEPT ![r] = name]
               /\ logs' = [logs EXCEPT ![r] = Append(@, Built(name))]
          /\ pc' = [pc EXCEPT ![r] = "generate"]
          /\ Completed(r, "BuildModel")
          /\ UNCHANGED <<response, temp_dir>>
       \/ /\ \E errors \in ValidationErrorLists :
               StageFailure(r, "YAML validation failed: ",
                            format_validation_errors(errors), 400)
          /\ UNCHANGED <<rendercv_model, completed>>
       \/ /\ \E msg \in ExcMessages :
               StageFailure(r, "Model build failed: ", msg, 400)
          /\ UNCHANGED <<rendercv_model, completed>>
    /\ UNCHANGED <<config, storage, request, yaml_content, theme, typst_path,
                   pdf_bytes, helper>>

\* lines 110-115
GenerateMarkup(r) ==
    /\ pc[r] = "generate"
    /\ Started(r, "GenerateMarkup")
    /\ \/ /\ typst_path' = [typst_path EXCEPT ![r] = "resume.typ"]
          /\ logs' = [logs EXCEPT ![r] = Append(@, Generated)]
          /\ pc' = [pc EXCEPT ![r] = "compile"]
          /\ Completed(r, "GenerateMarkup")
          /\ UNCHANGED <<response, temp_dir>>
       \/ /\ \E msg \in ExcMessages :
               StageFailure(r, "Typst generation failed: ", msg, 500)
          /\ UNCHANGED <<typst_path, completed>>
    /\ UNCHANGED <<config, storage, request, yaml_content, theme, rendercv_model,
                   pdf_bytes, helper>>

\* the compiler called again after a fault instead of the return of line 123
Compile_Retries(r) ==
    /\ pc[r] = "compile"
    /\ Started(r, "Compile")
    /\ \/ /\ \E n \in PdfSizes :
               /\ pdf_bytes' = [pdf_bytes EXCEPT ![r] = n]
               /\ logs' = [logs EXCEPT ![r] = Append(@, Compiled(n))]
          /\ pc' = [pc EXCEPT ![r] = "persist"]
          /\ Completed(r, "Compile")
          /\ UNCHANGED <<response, temp_dir>>
       \/ /\ Len(ran[r]) < 12
          /\ UNCHANGED <<pdf_bytes, completed, logs, pc, response, temp_dir>>
    /\ UNCHANGED <<config, storage, request, yaml_content, theme, rendercv_model,
                   typst_path, helper>>

\* lines 118-123
Compile(r) ==
    /\ pc[r] = "compile"
    /\ Started(r, "Compile")
    /\ \/ /\ \E n \in PdfSizes :
               /\ pdf_bytes' = [pdf_bytes EXCEPT ![r] = n]
               /\ logs' = [logs EXCEPT ![r] = Append(@, Compiled(n))]
          /\ pc' = [pc EXCEPT ![r] = "persist"]
          /\ Completed(r, "Compile")
          /\ UNCHANGED <<response, temp_dir>>
       \/ /\ \E msg \in ExcMessages :
               StageFailure(r, "Typst compilation failed: ", msg, 500)
          /\ UNCHANGED <<pdf_bytes, completed>>
    /\ UNCHANGED <<config, storage, request, yaml_content, theme, rendercv_model,
                   typst_path, helper>>

\* lines 126-133
GetStorageClient(r) ==
    /\ pc[r] = "persist"
    /\ Started(r, "Persist")
    /\ IF get_supabase_client = "client"
       THEN \/ /\ pc' = [pc EXCEPT ![r] = "upload"]
               /\ UNCHANGED <<logs, response, temp_dir>>
            \/ \* create_client raises
               \E msg \in ExcMessages : OuterHandler(r, msg)
       ELSE LET lg == Append(logs[r], ErrorLine(<<"Supabase not configured">>))
            IN  ReturnWith(r, lg, Failure(500,
                   <<"Supabase storage not configured. ",
                     "Set SUPABASE_URL and SUPABASE_KEY environment variables.">>,
                   lg))
    /\ UNCHANGED <<config, storage, request, yaml_content, theme, artifacts,
                   helper, completed>>

SuccessLogs_NotAppended(lg, file_path) == lg

\* line 148: logs.append(f"Uploaded to Supabase: {file_path}")
SuccessLogs(lg, file_path) == Append(lg, Uploaded(file_path))

\* lines 135-162
Upload(r) ==
    /\ pc[r] = "upload"
    \* uuid4 (line 136) returns a value no upload has used
    /\ \E file_id \in {u \in Uuids : <<u, ".pdf">> \notin storage} :
         LET file_path == <<file_id, ".pdf">>
             public_url == SUPABASE_URL.l
                  \o <<"/storage/v1/object/public/", SUPABASE_BUCKET, "/">>
                  \o file_path
             lg == SuccessLogs(logs[r], file_path)
         IN  \/ /\ storage' = storage \cup {file_path}
                /\ ReturnWith(r, lg, Success(public_url, lg))
                /\ ran' = [ran EXCEPT ![r] = @ \o <<"Upload", "Respond">>]
                /\ completed' = [completed EXCEPT ![r] = @ \o <<"Persist", "Respond">>]
             \/ /\ \E msg \in ExcMessages :
                     StageFailure(r, "Supabase upload failed: ", msg, 500)
                /\ Started(r, "Upload")
                /\ UNCHANGED <<storage, completed>>
    /\ UNCHANGED <<config, request, yaml_content, theme, artifacts, helper>>

Handler(r) ==
    \/ ReceiveInput(r)
    \/ ValidateNonEmpty(r)
    \/ Normalize(r)
    \/ ImportComponents(r)
    \/ CreateWorkDir(r)
    \/ InjectDefaults(r)
    \/ BuildModel(r)
    \/ GenerateMarkup(r)
    \/ Compile(r)
    \/ GetStorageClient(r)
    \/ Upload(r)

Init ==
    /\ SUPABASE_URL \in EnvValues("https://proj.supabase.co")
    /\ SUPABASE_KEY \in EnvValues("service-key")
    /\ storage = {}
    /\ pc = [r \in Requests |-> "receive"]
    /\ request = [r \in Requests |-> NoRequest]
    /\ yaml_content = [r \in Requests |-> YNone]
    /\ theme = [r \in Requests |-> PyNone]
    /\ logs = [r \in Requests |-> <<>>]
    /\ temp_dir = [r \in Requests |-> "none"]
    /\ rendercv_model = [r \in Requests |-> ""]
    /\ typst_path = [r \in Requests |-> ""]
    /\ pdf_bytes = [r \in Requests |-> -1]
    /\ response = [r \in Requests |-> NoResponse]
    /\ ran = [r \in Requests |-> <<>>]
    /\ completed = [r \in Requests |-> <<>>]
    /\ fin = <<>>
    /\ fout = <<>>
    /\ fpc = "off"

Next == \E r \in Serving : Handler(r)

Spec == Init /\ [][Next]_vars

\* the handler is sequential code whose every call returns or raises, so a
\* request that can take a step takes it
SpecLive == Spec /\ \A r \in Serving : WF_vars(Handler(r))

(***************************************************************************)
(* Concurrent requests: the workers of the pool (line 229) and the threads *)
(* of the development server each run generate_resume on a request of      *)
(* their own, in any interleaving of the stages.                           *)
(***************************************************************************)
\* the request each concurrent caller sends: different bodies, different
\* payload shapes, different themes
ConcInput(r) ==
    CASE r = 1 -> Request(PyStr(<<"text/plain">>), NoJson, DocNoDesign, TRUE, GivenTheme)
      [] r = 2 -> Request(PyStr(<<"application/json">>),
                          JsonBody("object", TRUE, YStr(DocWithTheme), FALSE, PyNone),
                          <<>>, FALSE, GivenTheme)
      [] OTHER -> Request(PyNone, NoJson, Fenced("yaml", DocNoDesign), FALSE, GivenTheme)

\* lines 48-60, on the request of caller r
ReceiveConc(r) == ReceiveInput(r) /\ request'[r] = ConcInput(r)

NextConc ==
    \E r \in Requests :
        \/ ReceiveConc(r)
        \/ ValidateNonEmpty(r)
        \/ Normalize(r)
        \/ ImportComponents(r)
        \/ CreateWorkDir(r)
        \/ InjectDefaults(r)
        \/ BuildModel(r)
        \/ GenerateMarkup(r)
        \/ Compile(r)
        \/ GetStorageClient(r)
        \/ Upload(r)

SpecConc == Init /\ [][NextConc]_vars

(***************************************************************************)
(* The helpers called alone: clean_yaml_content once and twice on a text,  *)
(* inject_theme on a document and a default theme.                         *)
(***************************************************************************)
Idle ==
    /\ SUPABASE_URL = PyNone
    /\ SUPABASE_KEY = PyNone
    /\ storage = {}
    /\ pc = [r \in Requests |-> "off"]
    /\ request = [r \in Requests |-> NoRequest]
    /\ yaml_content = [r \in Requests |-> YNone]
    /\ theme = [r \in Requests |-> PyNone]
    /\ logs = [r \in Requests |-> <<>>]
    /\ temp_dir = [r \in Requests |-> "none"]
    /\ rendercv_model = [r \in Requests |-> ""]
    /\ typst_path = [r \in Requests |-> ""]
    /\ pdf_bytes = [r \in Requests |-> -1]
    /\ response = [r \in Requests |-> NoResponse]
    /\ ran = [r \in Requests |-> <<>>]
    /\ completed = [r \in Requests |-> <<>>]

pipeline ==
    <<SUPABASE_URL, SUPABASE_KEY, storage, pc, request, yaml_content, theme,
      logs, temp_dir, rendercv_model, typst_path, pdf_bytes, response, ran,
      completed>>

\* the tokens of the texts given to clean_yaml_content
NormAlphabet ==
    {FENCE, NL, SP, Word("yaml"), Word("YML"), Word("json"), Key("cv", "J")}

\* the words that follow the three backticks of a leading fence line
Hints == {"", "yaml", "yml", "YML", "Yaml", "json"}

\* an arbitrary text, or a body between two fence lines
NormInputs ==
    { [t |-> t, fenced |-> FALSE, hint |-> "", body |-> <<>>] :
          t \in SeqsUpTo(NormAlphabet, MaxLen) }
    \cup { [t |-> Fenced(h, b), fenced |-> TRUE, hint |-> h, body |-> b] :
          h \in Hints, b \in SeqsUpTo(NormAlphabet, MaxBody) }

InitNorm ==
    /\ Idle
    /\ fin \in NormInputs
    /\ fout = <<>>
    /\ fpc = "call"

NormalizeOnce ==
    /\ fpc = "call"
    /\ fout' = <<clean_yaml_content(fin.t)>>
    /\ fpc' = "once"
    /\ UNCHANGED <<fin, pipeline>>

NormalizeTwice ==
    /\ fpc = "once"
    /\ fout' = Append(fout, clean_yaml_content(fout[1]))
    /\ fpc' = "twice"
    /\ UNCHANGED <<fin, pipeline>>

NextNorm == NormalizeOnce \/ NormalizeTwice

SpecNorm == InitNorm /\ [][NextNorm]_vars

\* the lines of the documents given to inject_theme
ThemeLines ==
    { <<Key("cv", "J")>>, <<Key("design", "")>>, <<Key("design", "{}")>>,
      <<Key("design", "mytheme")>>, <<Key("theme", "classic")>>,
      <<SP, SP, Key("theme", "engineeringresumes")>>, <<SP, SP, Key("font", "x")>>,
      <<Word("hello")>>, <<Item("x")>>, <<Item("theme")>>, <<Key("cv", "[")>>,
      <<FENCE>> }

RECURSIVE JoinLines(_)
\* "\n".join(lines)
JoinLines(ls) ==
    IF ls = <<>> THEN <<>>
    ELSE IF Len(ls) = 1 THEN ls[1]
    ELSE ls[1] \o <<NL>> \o JoinLines(Tail(ls))

ThemeDocs ==
    { t \in { JoinLines(ls) : ls \in SeqsUpTo(ThemeLines, MaxDocLines) } :
          YamlModelled(t) }

\* the theme argument: the default, a theme of the request, JSON null
ThemeArgs == {DefaultTheme, PyStr(<<"sb2nov">>), PyNone}

InitTheme ==
    /\ Idle
    /\ fin \in { [t |-> t, theme |-> th] : t \in ThemeDocs, th \in ThemeArgs }
    /\ fout = <<>>
    /\ fpc = "call"

InjectTheme ==
    /\ fpc = "call"
    /\ fout' = <<inject_theme(fin.t, fin.theme)>>
    /\ fpc' = "injected"
    /\ UNCHANGED <<fin, pipeline>>

\* the returned document is read back (by the model builder, by a test)
ReadBack ==
    /\ fpc = "injected"
    /\ ~fout[1].raised
    /\ fout' = Append(fout, ParseYaml(fout[1].text))
    /\ fpc' = "read"
    /\ UNCHANGED <<fin, pipeline>>

NextTheme == InjectTheme \/ ReadBack

SpecTheme == InitTheme /\ [][NextTheme]_vars

(***************************************************************************)
(* Properties.                                                             *)
(***************************************************************************)
Last(q) == q[Len(q)]
Tags(lg) == [i \in 1..Len(lg) |-> lg[i].tag]
Range(q) == {q[i] : i \in 1..Len(q)}
Done(r) == pc[r] = "done"
Failed(r) == Done(r) /\ ~response[r].body.success
Succeeded(r) == Done(r) /\ response[r].body.success
\* the first piece of an error string ("" for the empty string)
ErrorLabel(r) ==
    IF response[r].body.error = <<>> THEN "" ELSE response[r].body.error[1]

\* C1: a request that ends in success returns a url, and its log is exactly
\* received, theme, built, generated, compiled, uploaded, in that order (so
\* it holds no ERROR entry)
C1_SuccessLog ==
    \A r \in Requests :
        Succeeded(r) =>
            /\ response[r].status = 200
            /\ "url" \in response[r].body.keys
            /\ NonEmpty(response[r].body.url)
            /\ Tags(response[r].body.logs) =
                  <<"Received", "Theme", "Built", "Generated", "Compiled", "Uploaded">>

C1_Witness == \E r \in Requests : Succeeded(r)

\* the stages of the pipeline, in their order
StageOrder ==
    <<"ReceiveInput", "ValidateNonEmpty", "Normalize", "InjectDefaults",
      "BuildModel", "GenerateMarkup", "Compile", "Persist", "Respond">>

NamedStages(q) == SelectSeq(q, LAMBDA st : st \in Range(StageOrder))

\* C2: the stages a request has started are a prefix of the fixed order, and
\* every started stage but the last has completed without a fault; the
\* upload call is made only after Compile completed
C2_StageOrder ==
    \A r \in Requests :
        LET started == NamedStages(ran[r])
        IN  /\ Len(started) <= Len(StageOrder)
            /\ started = SubSeq(StageOrder, 1, Len(started))
            /\ \A i \in 1..(Len(started) - 1) : started[i] \in Range(completed[r])
            /\ "Upload" \in Range(ran[r]) =>
                  {"BuildModel", "GenerateMarkup", "Compile"} \subseteq Range(completed[r])

C2_Witness ==
    \E r \in Requests :
        /\ Done(r)
        /\ Last(ran[r]) = "BuildModel"
        /\ "BuildModel" \notin Range(completed[r])

\* the kind of fault that ended a failed request, read from its history
EmptyBodyFault(r) ==
    Last(ran[r]) = "ValidateNonEmpty" /\ response[r].body.logs = <<>>
BuildFault(r) == Last(ran[r]) = "BuildModel"

\* C3: a failure response has status 400 when the fault is the empty body or
\* a fault of the model build (validation or not), status 500 for every
\* other fault, and never status 200
C3_FailureStatus ==
    \A r \in Requests :
        Failed(r) =>
            /\ response[r].status \in {400, 500}
            /\ response[r].status = 400 <=> (EmptyBodyFault(r) \/ BuildFault(r))
            /\ response[r].status = 400 <=>
                  ErrorLabel(r) \in
                     {"No YAML content provided", "YAML validation failed: ",
                      "Model build failed: "}

C3_Witness ==
    \E r \in Requests :
        /\ Failed(r) /\ BuildFault(r) /\ response[r].status = 400
        /\ ErrorLabel(r) = "Model build failed: "

\* the document body of the request is empty: a zero-length raw body, or a
\* JSON object whose yaml_content is missing or the empty string
EmptyDocument(req) ==
    \/ req.json.kind = "none" /\ req.data = <<>>
    \/ req.json.kind = "object" /\ (~req.json.has_yaml \/ req.json.yaml = YStr(<<>>))

StageTags(st) ==
    CASE st = "ValidateNonEmpty" -> <<"Received", "Theme">>
      [] st = "BuildModel" -> <<"Built">>
      [] st = "GenerateMarkup" -> <<"Generated">>
      [] st = "Compile" -> <<"Compiled">>
      [] st = "Persist" -> <<"Uploaded">>
      [] OTHER -> <<>>

RECURSIVE TagsOf(_)
TagsOf(stages) ==
    IF stages = <<>> THEN <<>> ELSE StageTags(Head(stages)) \o TagsOf(Tail(stages))

IsPrefix(p, q) == Len(p) <= Len(q) /\ p = SubSeq(q, 1, Len(p))

FailureLogShape ==
    \A r \in Requests :
        (Failed(r) /\ "ValidateNonEmpty" \in Range(completed[r])) =>
            LET lg == response[r].body.logs
            IN  /\ lg # <<>>
                /\ Last(lg).tag = "ERROR"
                /\ Tags(SubSeq(lg, 1, Len(lg) - 1)) = TagsOf(completed[r])

LogsAppendOnly == \A r \in Requests : IsPrefix(logs[r], logs'[r])

\* C5: the log of a failure response after ValidateNonEmpty is the entries
\* of the stages that completed, in order, then one ERROR entry, the last;
\* and no step removes or reorders an entry of a log
C5_FailureLog == []FailureLogShape /\ [][LogsAppendOnly]_vars

C5_Witness ==
    \E r \in Requests :
        /\ Failed(r)
        /\ "Compile" \in Range(completed[r])
        /\ Len(response[r].body.logs) = 6

\* the storage credentials are not both set
Unconfigured ==
    \/ SUPABASE_URL \in {PyNone, PyStr(<<>>)}
    \/ SUPABASE_KEY \in {PyNone, PyStr(<<>>)}

\* C6: without storage credentials a request that reaches Persist ends with
\* status 500, the storage-configuration error, the storage error as last
\* log entry and no url, and no upload call is made
C6_StorageUnconfigured ==
    \A r \in Requests :
        (Unconfigured /\ "Persist" \in Range(ran[r])) =>
            /\ Failed(r)
            /\ response[r].status = 500
            /\ ErrorLabel(r) = "Supabase storage not configured. "
            /\ Last(response[r].body.logs) = ErrorLine(<<"Supabase not configured">>)
            /\ "url" \notin response[r].body.keys
            /\ "Upload" \notin Range(ran[r])
            /\ storage = {}

C6_Witness ==
    \E r \in Requests :
        /\ "Persist" \in Range(ran[r])
        /\ SUPABASE_URL = PyStr(<<"https://proj.supabase.co">>)
        /\ SUPABASE_KEY = PyNone

\* C7: every request ends with a success object or with an object that has
\* success = false, a non-empty error string and the logs field
C7_WellFormedResponse ==
    \A r \in Requests :
        Done(r) =>
            \/ response[r].body.success
            \/ /\ response[r].body.keys = {"success", "error", "logs"}
               /\ NonEmpty(response[r].body.error)

\* C8: normalizing the result of a normalization changes nothing
C8_Idempotent == fpc = "twice" => fout[2] = fout[1]

\* C9 as stated: whatever word follows the three backticks of the leading
\* fence line, the text between the two fence lines is returned, trimmed
C9_AnyHint ==
    (fin.fenced /\ fpc # "call") => fout[1] = Strip(fin.body)

\* C9: for a leading fence line of three backticks alone or followed by
\* yaml or yml in any letter case, a body and a trailing fence line,
\* normalization returns the body with surrounding whitespace trimmed
C9_YamlHint ==
    (fin.fenced /\ Lower(fin.hint) \in {"", "yaml", "yml"} /\ fpc # "call") =>
        fout[1] = Strip(fin.body)

C9_Witness ==
    /\ fpc = "once"
    /\ fin.fenced
    /\ fin.hint = "YML"
    /\ fin.body = <<SP, Key("cv", "J"), NL>>
    /\ fout[1] = <<Key("cv", "J")>>

\* the design section of a parsed document: absent, or a mapping
DesignIsSection(doc) == "design" \in DOMAIN doc.d => doc.d["design"].py = "dict"
HasOwnTheme(doc) ==
    /\ "design" \in DOMAIN doc.d
    /\ doc.d["design"].py = "dict"
    /\ "theme" \in DOMAIN doc.d["design"].d

C11_FailOpen ==
    (fpc # "call" /\ ~ParseYaml(fin.t).ok) =>
        /\ ~fout[1].raised
        /\ fout[1].text = fin.t

C11_Witness ==
    /\ fpc = "injected"
    /\ fin.t = <<Key("cv", "J"), NL, Key("cv", "[")>>
    /\ fout[1] = Returned(fin.t)

\* what a request itself carries: its document body and its theme
OwnDocument(req) ==
    IF req.json.kind = "object"
    THEN (IF req.json.has_yaml THEN req.json.yaml ELSE YStr(<<>>))
    ELSE YStr(req.data)
OwnTheme(req) ==
    IF req.json.kind = "object"
    THEN (IF req.json.has_theme THEN req.json.theme ELSE DefaultTheme)
    ELSE (IF req.has_arg_theme THEN req.arg_theme ELSE DefaultTheme)

\* the local state of the handler that serves request q
Locals(q) ==
    <<pc[q], request[q], yaml_content[q], theme[q], logs[q], temp_dir[q],
      rendercv_model[q], typst_path[q], pdf_bytes[q], response[q], ran[q],
      completed[q]>>

\* the log of request r holds the entries of r's own stages only: the length
\* of r's own body, r's own theme, r's own model, artifact size and object
\* path, one entry per stage; the response returns that log, and the url of
\* a success names the object r uploaded, which no other request names
OwnResults ==
    \A r \in Requests :
        LET lg == logs[r]
            own == OwnDocument(request[r])
        IN  /\ IsPrefix(Tags(lg),
                  <<"Received", "Theme", "Built", "Generated", "Compiled", "Uploaded">>)
               \/ /\ Last(lg).tag = "ERROR"
                  /\ IsPrefix(Tags(SubSeq(lg, 1, Len(lg) - 1)),
                        <<"Received", "Theme", "Built", "Generated", "Compiled">>)
            /\ Len(lg) >= 2 =>
                  /\ lg[1] = Received(TextLen(own.t))
                  /\ lg[2] = ThemeLine(PyStrOf(OwnTheme(request[r])))
            /\ \A i \in 1..Len(lg) :
                  /\ lg[i].tag = "Built" => lg[i] = Built(rendercv_model[r])
                  /\ lg[i].tag = "Compiled" => lg[i] = Compiled(pdf_bytes[r])
            /\ Done(r) => response[r].body.logs = lg
            /\ Succeeded(r) =>
                  /\ Last(lg).msg \in storage
                  /\ response[r].body.url =
                        SUPABASE_URL.l
                          \o <<"/storage/v1/object/public/", SUPABASE_BUCKET, "/">>
                          \o Last(lg).msg
                  /\ \A q \in Requests \ {r} :
                        Succeeded(q) => response[q].body.url # response[r].body.url

\* a step belongs to one request: the locals of every other request, the
\* configuration and the objects already stored are left as they were
OneRequestPerStep ==
    /\ \E r \in Requests : \A q \in Requests \ {r} : Locals(q)' = Locals(q)
    /\ config' = config
    /\ storage \subseteq storage'

\* C12: under every interleaving of concurrent requests, the log, the error
\* and the url returned for a request come from that request's own input and
\* stage results, and no step of a request changes anything of another
C12_NoCrossTalk == []OwnResults /\ [][OneRequestPerStep]_vars

C12_Witness ==
    /\ Succeeded(1) /\ Succeeded(2)
    /\ response[1].body.logs[1] # response[2].body.logs[1]
    /\ response[1].body.logs[2] # response[2].body.logs[2]

\* the declared content type contains "application/json"
DeclaresJson(req) ==
    req.content_type.py = "str" /\ PyContains(req.content_type, "application/json")

\* C13: once ReceiveInput has completed, the document body is the
\* yaml_content field and the theme the theme field when the content type
\* contains "application/json", the raw body and the theme query parameter
\* otherwise; a theme that is not given is "classic"
C13_PayloadShape ==
    \A r \in Requests :
        "ReceiveInput" \in Range(completed[r]) =>
            LET req == request[r]
            IN  /\ DeclaresJson(req) =>
                      /\ theme[r] = IF req.json.has_theme THEN req.json.theme
                                    ELSE PyStr(<<"classic">>)
                      /\ pc[r] = "validate" =>
                            yaml_content[r] = IF req.json.has_yaml THEN req.json.yaml
                                              ELSE YStr(<<>>)
                /\ ~DeclaresJson(req) =>
                      /\ theme[r] = IF req.has_arg_theme THEN req.arg_theme
                                    ELSE PyStr(<<"classic">>)
                      /\ pc[r] = "validate" => yaml_content[r] = YStr(req.data)

C13_Witness ==
    \E r \in Requests :
        /\ pc[r] = "validate"
        /\ request[r].content_type = PyStr(<<"application/json", "; charset=utf-8">>)
        /\ request[r].json.yaml = YStr(DocNoDesign)
        /\ ~request[r].json.has_theme
        /\ yaml_content[r] = YStr(DocNoDesign)
        /\ theme[r] = PyStr(<<"classic">>)

\* the last log line of a failed request is that of the outer catch-all
Unexpected(r) ==
    /\ response[r].body.logs # <<>>
    /\ Last(response[r].body.logs).tag = "ERROR"
    /\ Last(response[r].body.logs).msg[1] = "Unexpected error: "

\* C14: a fault raised in Normalize, InjectDefaults, BuildModel,
\* GenerateMarkup, Compile or Persist (creation of the storage client and
\* upload) is never reported by the outer catch-all as an unexpected error
C14_StageBoundaries ==
    \A r \in Requests :
        (Failed(r) /\ Last(ran[r]) \in
            {"Normalize", "InjectDefaults", "BuildModel", "GenerateMarkup",
             "Compile", "Persist", "Upload"}) =>
                ~Unexpected(r)

\* C15: a request that ends without having started Normalize ended at the
\* empty-body check, with status 400 and the empty-body error
C15_OnlyEmptyBodyExit ==
    \A r \in Requests :
        (Done(r) /\ "Normalize" \notin Range(ran[r])) =>
            /\ Last(ran[r]) = "ValidateNonEmpty"
            /\ response[r].status = 400
            /\ response[r].body.error = <<"No YAML content provided">>

\* C16: for every text that parses, whatever the parsed value is,
\* inject_theme raises nothing and returns a document that has a top-level
\* design section carrying a theme key
C16_AlwaysThemed ==
    (fpc # "call" /\ ParseYaml(fin.t).ok) =>
        /\ ~fout[1].raised
        /\ fpc = "read" =>
              /\ fout[2].ok
              /\ HasOwnTheme(fout[2].val)

\* the calls of the collaborators, as the history names them
Collaborators == {"BuildModel", "GenerateMarkup", "Compile", "Upload"}

Count(q, x) == Cardinality({i \in 1..Len(q) : q[i] = x})

\* every stage, the collaborators among them, has been started at most once,
\* and a request that failed has started nothing after the stage that failed
AtMostOnce ==
    \A r \in Requests :
        /\ \A st \in Range(ran[r]) : Count(ran[r], st) = 1
        /\ Failed(r) =>
              /\ Last(ran[r]) \notin Range(completed[r])
              /\ \A i \in 1..(Len(ran[r]) - 1) :
                    ran[r][i] \in Range(completed[r]) \cup {"Persist"}

\* once a request has its response, no stage of it is started again
NothingAfterEnd == \A r \in Requests : Done(r) => ran'[r] = ran[r]

\* C17: within one request every collaborator is called at most once, and
\* after a stage has failed no stage is started again
C17_NoRetry == []AtMostOnce /\ [][NothingAfterEnd]_vars

C17_Witness ==
    \E r \in Requests :
        /\ Failed(r)
        /\ Last(ran[r]) = "Compile"
        /\ ErrorLabel(r) = "Typst compilation failed: "
        /\ Collaborators \cap Range(ran[r]) = {"BuildModel", "GenerateMarkup", "Compile"}

\* C18: a request that has ended has no temporary directory in existence:
\* the directory it created is deleted, on success and on every failure;
\* the directory exists only while the request is between its creation and
\* its response
C18_WorkDirReleased ==
    \A r \in Requests :
        /\ Done(r) =>
              temp_dir[r] = IF "CreateWorkDir" \in Range(completed[r])
                            THEN "deleted" ELSE "none"
        /\ temp_dir[r] = "exists" =>
              pc[r] \in {"inject", "build", "generate", "compile", "persist", "upload"}

C18_Witness ==
    \E r \in Requests :
        /\ Failed(r)
        /\ Last(ran[r]) = "InjectDefaults"
        /\ Unexpected(r)
        /\ temp_dir[r] = "deleted"

\* a request has a response exactly when it has ended
ResponseIffDone == \A r \in Requests : (response[r] # NoResponse) <=> Done(r)

\* the response of a request that has ended is never replaced
ResponseIsFinal ==
    \A r \in Requests : Done(r) => (pc'[r] = "done" /\ response'[r] = response[r])

\* C19: every request that is served eventually ends with a response, a
\* success or one error, and the response it has ended with is its only one
C19_OneResponse ==
    /\ \A r \in Serving : <>Done(r)
    /\ []ResponseIffDone
    /\ [][ResponseIsFinal]_vars

C19_Witness ==
    \E r \in Serving :
        /\ Done(r)
        /\ Last(ran[r]) = "Upload"
        /\ response[r].status = 500
        /\ response[r].body.keys = {"success", "error", "logs"}

====
